---- MODULE Spec2Model ----
(***************************************************************************)
(* ctapi-rs: a safe wrapper around the Citect SCADA client library.        *)
(*                                                                         *)
(* The module models                                                       *)
(*   - the AsyncOperation life cycle of async_ops.rs (creation, the three  *)
(*     initiators, Wait/Poll result retrieval, cancel, reset, drop)        *)
(*     together with the native layer it talks to (specification Spec);    *)
(*   - the ownership of the native connection handle by CtClient values    *)
(*     and the CtList / CtFind objects derived from them                   *)
(*     (specification SpecConn).                                           *)
(* The native library is a black box: whatever it returns is a             *)
(* nondeterministic choice among the outcomes its interface allows.        *)
(***************************************************************************)
EXTENDS Integers, Sequences, FiniteSets, TLC

(***************************************************************************)
(* Bounds of the model.                                                    *)
(***************************************************************************)
\* largest result buffer an AsyncOperation is created with
MaxBuf == 1
\* largest result buffer the decoding functions are applied to
MaxDecodeBuf == 3
\* number of AsyncOperation values created in one behaviour
MaxOps == 1
\* number of native operations that may be outstanding at once
MaxPending == 2
\* longest string handed to the encoder
MaxStr == 3
\* number of CtClient values (originals and clones) in one behaviour
MaxClients == 2
\* number of native connection handles ctOpen can hand out
MaxHandles == 1
\* number of CtList / CtFind objects in one behaviour
MaxDerived == 1
\* number of item handles ctListAdd / ctListAddEx can hand out
MaxItems == 2
\* number of objects a search yields after the first
MaxFound == 2
\* number of concurrent cicode_tokio calls on one shared connection
MaxTasks == 2

(***************************************************************************)
(* Program constants.                                                      *)
(***************************************************************************)
\* the code the initiators swallow (async_ops.rs:379, list.rs:146, 243)
ERROR_IO_PENDING == 997
\* the code try_get_result swallows (async_ops.rs:233)
TRY_GET_RESULT_SWALLOWED == 997
\* the native "operation incomplete" code named by the comment async_ops.rs:234
ERROR_IO_INCOMPLETE == 996
\* the status is_complete compares against (async_ops.rs:126)
STATUS_PENDING == 259
\* the failure codes the native layer is taken to report
NativeErrorCodes ==
    {5, ERROR_IO_INCOMPLETE, ERROR_IO_PENDING}

\* byte values that occur in buffers: the terminator, an ASCII letter and a
\* byte that is both a GBK lead byte and a GBK trail byte
Bytes ==
    {0, 65, 176}

\* NULL handle
NULL == 0

Min(a, b) ==
    IF a <= b THEN a ELSE b

\* all buffers of exactly n bytes
BuffersOfLen(n) ==
    [1..n -> Bytes]

\* vec![0u8; n]
ZeroBuffer(n) ==
    [i \in 1..n |-> 0]

(***************************************************************************)
(* Return values.  A value of type Result<_> / Option<Result<_>> is a      *)
(* record: opt is "Some"/"None" for the Option layer ("" when there is     *)
(* none), kind is "Ok"/"Err", err names the CtApiError variant, code is    *)
(* the native code a System error wraps, text is the decoded string.       *)
(***************************************************************************)
Ok(t) ==
    [opt |-> "", kind |-> "Ok", err |-> "", code |-> 0, text |-> t]

OkUnit ==
    [opt |-> "", kind |-> "Ok", err |-> "", code |-> 0, text |-> <<>>]

OkTrue ==
    [opt |-> "", kind |-> "OkTrue", err |-> "", code |-> 0, text |-> <<>>]

OkFalse ==
    [opt |-> "", kind |-> "OkFalse", err |-> "", code |-> 0, text |-> <<>>]

ErrSystem(c) ==
    [opt |-> "", kind |-> "Err", err |-> "System", code |-> c, text |-> <<>>]

ErrFromBytesUntilNul ==
    [opt |-> "", kind |-> "Err", err |-> "FromBytesUntilNul", code |-> 0, text |-> <<>>]

ErrInvalidParameter ==
    [opt |-> "", kind |-> "Err", err |-> "InvalidParameter", code |-> 0, text |-> <<>>]

ErrOther ==
    [opt |-> "", kind |-> "Err", err |-> "Other", code |-> 0, text |-> <<>>]

ErrTagNotInList ==
    [opt |-> "", kind |-> "Err", err |-> "TagNotInList", code |-> 0, text |-> <<>>]

ErrTagNotFound ==
    [opt |-> "", kind |-> "Err", err |-> "TagNotFound", code |-> 0, text |-> <<>>]

\* the call did not return: the thread panicked
Panic ==
    [opt |-> "", kind |-> "Panic", err |-> "", code |-> 0, text |-> <<>>]

ErrNul ==
    [opt |-> "", kind |-> "Err", err |-> "NulError", code |-> 0, text |-> <<>>]

Some(r) ==
    [r EXCEPT !.opt = "Some"]

None ==
    [opt |-> "None", kind |-> "", err |-> "", code |-> 0, text |-> <<>>]

NoRet ==
    [opt |-> "", kind |-> "", err |-> "", code |-> 0, text |-> <<>>]

(***************************************************************************)
(* Text conversion.  A decoded character is a number: an ASCII character   *)
(* is its code, a double-byte GBK character is 256 * lead + trail, and     *)
(* 65533 is the replacement character the lossy decoder substitutes.       *)
(***************************************************************************)
REPLACEMENT_CHARACTER == 65533

IsGbkLead(b) ==
    b >= 129 /\ b <= 254

IsGbkTrail(b) ==
    (b >= 64 /\ b <= 126) \/ (b >= 128 /\ b <= 254)

\* GBK.decode(bytes).0 : never fails, malformed input becomes U+FFFD
RECURSIVE GBK_decode(_)
GBK_decode(bytes) ==
    IF bytes = <<>> THEN <<>>
    ELSE IF bytes[1] < 128 THEN <<bytes[1]>> \o GBK_decode(Tail(bytes))
    ELSE IF IsGbkLead(bytes[1]) /\ Len(bytes) >= 2 /\ IsGbkTrail(bytes[2])
         THEN <<256 * bytes[1] + bytes[2]>> \o GBK_decode(Tail(Tail(bytes)))
    ELSE <<REPLACEMENT_CHARACTER>> \o GBK_decode(Tail(bytes))

\* position of the first zero byte of a slice, 0 when there is none
RECURSIVE FirstNul(_, _)
FirstNul(slice, i) ==
    IF i > Len(slice) THEN 0
    ELSE IF slice[i] = 0 THEN i
    ELSE FirstNul(slice, i + 1)

\* CStr::from_bytes_until_nul(slice): the bytes before the first zero byte,
\* or an error when the slice holds no zero byte
from_bytes_until_nul(slice) ==
    IF FirstNul(slice, 1) = 0
    THEN [ok |-> FALSE, bytes |-> <<>>]
    ELSE [ok |-> TRUE, bytes |-> SubSeq(slice, 1, FirstNul(slice, 1) - 1)]

\* extract_string_from_buffer with the empty-response check of decode_response_buffer
extract_string_from_buffer_nonempty(buffer) ==
    LET cstr == from_bytes_until_nul(buffer)
    IN  IF ~cstr.ok THEN ErrFromBytesUntilNul
        ELSE IF GBK_decode(cstr.bytes) = <<>> THEN ErrOther
        ELSE Ok(GBK_decode(cstr.bytes))

\* client.rs: extract_string_from_buffer
extract_string_from_buffer(buffer) ==
    LET cstr == from_bytes_until_nul(buffer)
    IN  IF ~cstr.ok THEN ErrFromBytesUntilNul
        ELSE Ok(GBK_decode(cstr.bytes))

\* result_len without the cap by bytes_transferred
result_len_uncapped(bytes_transferred, buffer) ==
    Len(buffer)

\* bytes_transferred.min(self.buffer.len() as u32) as usize
\* (the cast to u32 keeps the length of every buffer shorter than 2^32 bytes)
result_len(bytes_transferred, buffer) ==
    Min(bytes_transferred, Len(buffer))

\* decode_result that decodes the whole slice when it holds no terminator
decode_result_lossy(bytes_transferred, buffer) ==
    LET result_slice == SubSeq(buffer, 1, result_len(bytes_transferred, buffer))
        cstr == from_bytes_until_nul(result_slice)
    IN  IF ~cstr.ok THEN Ok(GBK_decode(result_slice))
        ELSE Ok(GBK_decode(cstr.bytes))

\* the decoding both get_result and try_get_result perform after the native
\* call has reported success
\* (the slice  &self.buffer[..result_len]  panics when result_len exceeds the
\* buffer's length)
decode_result(bytes_transferred, buffer) ==
    LET result_slice == SubSeq(buffer, 1, result_len(bytes_transferred, buffer))
        cstr == from_bytes_until_nul(result_slice)
    IN  IF result_len(bytes_transferred, buffer) > Len(buffer) THEN Panic
        ELSE IF ~cstr.ok THEN ErrFromBytesUntilNul
        ELSE Ok(GBK_decode(cstr.bytes))

\* decode_response_buffer without the empty-response check
decode_response_buffer_allow_empty(buffer) ==
    extract_string_from_buffer(buffer)

\* client.rs: decode_response_buffer
decode_response_buffer(buffer) ==
    LET decoded_string == extract_string_from_buffer(buffer)
    IN  IF decoded_string.kind = "Err" THEN decoded_string
        ELSE IF decoded_string.text = <<>> THEN ErrOther
        ELSE decoded_string

\* characters that occur in command, tag and value strings: NUL, an ASCII
\* letter, a character of the GBK repertoire and one outside it
Chars ==
    {0, 65, 45232, 128512}

\* strings of at most MaxStr characters
Strings ==
    UNION {[1..n -> Chars] : n \in 0..MaxStr}

\* command and value strings passed to the initiators: plain, double-byte,
\* outside the code page, and with an embedded NUL
ArgStrings ==
    {<<65, 45232>>, <<128512>>, <<65, 0>>}

IsGbkChar(c) ==
    c >= 256 /\ c < 65536 /\ IsGbkLead(c \div 256) /\ IsGbkTrail(c % 256)

\* decimal digits of n as ASCII bytes
RECURSIVE DecimalDigits(_)
DecimalDigits(n) ==
    IF n < 10 THEN <<48 + n>>
    ELSE DecimalDigits(n \div 10) \o <<48 + (n % 10)>>

\* GBK.encode(s).0 : an unmappable character becomes the numeric character
\* reference &#N;
RECURSIVE GBK_encode(_)
GBK_encode(s) ==
    IF s = <<>> THEN <<>>
    ELSE IF s[1] < 128 THEN <<s[1]>> \o GBK_encode(Tail(s))
    ELSE IF IsGbkChar(s[1])
         THEN <<s[1] \div 256, s[1] % 256>> \o GBK_encode(Tail(s))
    ELSE <<38, 35>> \o DecimalDigits(s[1]) \o <<59>> \o GBK_encode(Tail(s))

\* an encoder that rejects a string with a character outside the code page
encode_to_gbk_cstring_strict(s) ==
    LET encoded == GBK_encode(s)
    IN  IF FirstNul(encoded, 1) # 0 \/ \E i \in 1..Len(s) : s[i] >= 128 /\ ~IsGbkChar(s[i])
        THEN [ok |-> FALSE, bytes |-> <<>>]
        ELSE [ok |-> TRUE, bytes |-> encoded]

\* async_ops.rs / client.rs: encode_to_gbk_cstring; CString::new rejects an
\* interior zero byte
encode_to_gbk_cstring(s) ==
    LET encoded == GBK_encode(s)
    IN  IF FirstNul(encoded, 1) # 0
        THEN [ok |-> FALSE, bytes |-> <<>>]
        ELSE [ok |-> TRUE, bytes |-> encoded]

(***************************************************************************)
(* State.                                                                  *)
(***************************************************************************)
VARIABLES
    async_op,      \* the AsyncOperation: phase, overlapped, buffer, event_handle
    inflight,      \* native operations outstanding against its control block, per kind
    initiated,     \* a native initiation was issued since creation / reset
    created,       \* number of AsyncOperation values created so far
    event_closes,  \* CloseHandle calls per completion-event handle
    uaf,           \* the native layer completed into a destroyed AsyncOperation
    lastCall,      \* the last public call: what the native layer answered, what it
                   \* returned, and the buffer it was given as an argument
    clients,       \* CtClient values
    lists,         \* CtList values
    finds,         \* CtFind values
    conn_open,     \* native connection handles that are open
    close_calls,   \* ctClose calls per native connection handle
    opened,        \* number of connection handles ctOpen has handed out
    tasks,         \* calls of cicode_tokio: position, command and return value
    task_ops,      \* the AsyncOperation each blocking closure creates
    native         \* the native layer's side of lists and searches: release and
                   \* search calls received, item handles alive

vars ==
    <<async_op, inflight, initiated, created, event_closes, uaf, lastCall,
      clients, lists, finds, conn_open, close_calls, opened, tasks, task_ops,
      native>>

tokioVars ==
    <<tasks, task_ops>>

asyncVars ==
    <<async_op, inflight, initiated, created, event_closes, uaf, lastCall>>

connVars ==
    <<clients, lists, finds, conn_open, close_calls, opened>>

\* heap addresses a Vec<u8> allocation may get
HeapAddrs ==
    {16}

\* the address of an empty Vec: NonNull::dangling()
DanglingAddrs ==
    {1}

\* INVALID_HANDLE_VALUE as isize
INVALID_HANDLE_VALUE == -1

\* OVERLAPPED::new(): the control block in its "not started" state
OVERLAPPED_new ==
    [dwStatus |-> 0, dwLength |-> 0, pData |-> NULL, hEvent |-> NULL]

NoAsyncOp ==
    [phase |-> "none", overlapped |-> OVERLAPPED_new, buffer |-> <<>>,
     buf_addr |-> NULL, event_handle |-> NULL]

NoCall ==
    [op |-> "", called |-> FALSE, ok |-> FALSE, code |-> 0, bytes |-> 0,
     input |-> <<>>, ret |-> NoRet]

\* a public call that issued a native call: the native answer and the return value
Call(name, out, buf, r) ==
    [op |-> name, called |-> TRUE, ok |-> out.ok, code |-> out.code,
     bytes |-> out.bytes, input |-> buf, ret |-> r]

\* a public call that returned without a native call
CallNoNative(name, buf, r) ==
    [op |-> name, called |-> FALSE, ok |-> FALSE, code |-> 0, bytes |-> 0,
     input |-> buf, ret |-> r]

(***************************************************************************)
(* What the native layer may answer.                                       *)
(***************************************************************************)
NativeFailures ==
    {[ok |-> FALSE, code |-> c, bytes |-> 0] : c \in NativeErrorCodes}

\* answers of an initiating call (ctCicode, ctListRead, ctListWrite)
InitiateOutcomes ==
    {[ok |-> TRUE, code |-> 0, bytes |-> 0]} \cup NativeFailures

\* answers of ctGetOverlappedResult: success with a byte count (which the
\* native layer may report larger than the buffer), or a failure code
ResultOutcomes(buffer) ==
    {[ok |-> TRUE, code |-> 0, bytes |-> n] : n \in 0..(Len(buffer) + 1)} \cup NativeFailures

\* no native operation outstanding
NoneInflight ==
    [cicode |-> 0, list |-> 0]

\* number of native operations outstanding against the control block
Outstanding ==
    inflight.cicode + inflight.list

\* final values of dwStatus: success or ERROR_OPERATION_ABORTED
FinalStatuses ==
    {0, 995}

\* the native layer fills the buffer and stores the length of the text it wrote
NativeWrites(buffer) ==
    {[n |-> IF FirstNul(w, 1) = 0 THEN Len(w) ELSE FirstNul(w, 1) - 1, buf |-> w] :
        w \in BuffersOfLen(Len(buffer))}

(***************************************************************************)
(* AsyncOperation (async_ops.rs).                                          *)
(***************************************************************************)
\* with_buffer_size that binds the data pointer to a temporary, not to the buffer
with_buffer_size_stale_pointer(buffer_size, event_handle, addr) ==
    /\ async_op.phase \in {"none", "dropped"}
    /\ created < MaxOps
    /\ event_handle \in {NULL, created + 1}
    /\ addr \in (IF buffer_size = 0 THEN DanglingAddrs ELSE HeapAddrs)
    /\ async_op' = [phase |-> "live",
                    overlapped |-> [OVERLAPPED_new EXCEPT
                                       !.hEvent = event_handle,
                                       !.dwStatus = 0,
                                       !.dwLength = 0,
                                       !.pData = addr + 16],
                    buffer |-> ZeroBuffer(buffer_size),
                    buf_addr |-> addr,
                    event_handle |-> event_handle]
    /\ created' = created + 1
    /\ initiated' = FALSE
    /\ lastCall' = CallNoNative("with_buffer_size", <<>>, NoRet)
    /\ UNCHANGED <<inflight, event_closes, uaf, connVars>>
    /\ UNCHANGED tokioVars
    /\ UNCHANGED native

\* AsyncOperation::with_buffer_size; AsyncOperation::new is the size-256 case.
\* CreateEventA answers a fresh handle or NULL, which is not checked.
with_buffer_size(buffer_size, event_handle, addr) ==
    /\ async_op.phase \in {"none", "dropped"}
    /\ created < MaxOps
    /\ event_handle \in {NULL, created + 1}
    /\ addr \in (IF buffer_size = 0 THEN DanglingAddrs ELSE HeapAddrs)
    /\ async_op' = [phase |-> "live",
                    overlapped |-> [OVERLAPPED_new EXCEPT
                                       !.hEvent = event_handle,
                                       !.dwStatus = 0,
                                       !.dwLength = 0,
                                       !.pData = addr],
                    buffer |-> ZeroBuffer(buffer_size),
                    buf_addr |-> addr,
                    event_handle |-> event_handle]
    /\ created' = created + 1
    /\ initiated' = FALSE
    /\ lastCall' = CallNoNative("with_buffer_size", <<>>, NoRet)
    /\ UNCHANGED <<inflight, event_closes, uaf, connVars>>
    /\ UNCHANGED tokioVars
    /\ UNCHANGED native

\* is_complete that takes every non-zero status for "completed"
is_complete_nonzero(op) ==
    op.overlapped.dwStatus # 0

\* AsyncOperation::is_complete
is_complete(op) ==
    op.overlapped.dwStatus # STATUS_PENDING

\* What an initiating native call does to the control block and the buffer:
\* it completes at once (TRUE), is accepted and left pending (FALSE with
\* ERROR_IO_PENDING), or is refused (any other code).
NativeInitiate(kind, out) ==
    IF out.ok
    THEN /\ \E w \in (IF kind = "cicode" THEN NativeWrites(async_op.buffer)
                      ELSE {[n |-> 0, buf |-> async_op.buffer]}) :
               async_op' = [async_op EXCEPT !.buffer = w.buf,
                                            !.overlapped.dwStatus = 0,
                                            !.overlapped.dwLength = w.n]
         /\ UNCHANGED inflight
    ELSE IF out.code = ERROR_IO_PENDING
    THEN /\ Outstanding < MaxPending
         /\ async_op' = [async_op EXCEPT !.overlapped.dwStatus = STATUS_PENDING]
         /\ inflight' = [inflight EXCEPT ![kind] = @ + 1]
    ELSE UNCHANGED <<async_op, inflight>>

\* cicode_async_ret that also swallows the neighbouring code 996
cicode_async_ret_swallow996(out) ==
    IF ~out.ok
    THEN IF out.code # 997 /\ out.code # 996 THEN ErrSystem(out.code) ELSE OkUnit
    ELSE OkUnit

\* the return value of cicode_async once ctCicode has answered
cicode_async_ret(out) ==
    IF ~out.ok
    THEN IF out.code # 997 THEN ErrSystem(out.code) ELSE OkUnit
    ELSE OkUnit

\* cicode_async that hands the command to the native layer although the
\* encoder rejected it
cicode_async_unchecked(c, cmd) ==
    /\ async_op.phase = "live"
    /\ clients[c].state = "live"
    /\ \E out \in InitiateOutcomes :
          /\ NativeInitiate("cicode", out)
          /\ initiated' = TRUE
          /\ lastCall' = Call("cicode_async", out, <<>>, cicode_async_ret(out))
    /\ UNCHANGED <<created, event_closes, uaf, connVars>>
    /\ UNCHANGED tokioVars
    /\ UNCHANGED native

\* AsyncCtClient::cicode_async
cicode_async(c, cmd) ==
    /\ async_op.phase = "live"
    /\ clients[c].state = "live"
    /\ LET encoded == encode_to_gbk_cstring(cmd)
       IN  IF ~encoded.ok
           THEN /\ lastCall' = CallNoNative("cicode_async", <<>>, ErrInvalidParameter)
                /\ UNCHANGED <<async_op, inflight, initiated>>
           ELSE \E out \in InitiateOutcomes :
                   /\ NativeInitiate("cicode", out)
                   /\ initiated' = TRUE
                   /\ lastCall' = Call("cicode_async", out, <<>>, cicode_async_ret(out))
    /\ UNCHANGED <<created, event_closes, uaf, connVars>>
    /\ UNCHANGED tokioVars
    /\ UNCHANGED native

\* the return value of read_async once ctListRead has answered
read_async_ret(out) ==
    IF ~out.ok
    THEN IF out.code # 997 THEN ErrSystem(out.code) ELSE OkUnit
    ELSE OkUnit

\* CtList::read_async
read_async(l) ==
    /\ async_op.phase = "live"
    /\ lists[l].state = "live"
    /\ \E out \in InitiateOutcomes :
          /\ NativeInitiate("list", out)
          /\ initiated' = TRUE
          /\ lastCall' = Call("read_async", out, <<>>, read_async_ret(out))
    /\ UNCHANGED <<created, event_closes, uaf, connVars>>
    /\ UNCHANGED tokioVars
    /\ UNCHANGED native

\* the return value of write_tag_async once ctListWrite has answered
write_tag_async_ret(out) ==
    IF ~out.ok
    THEN IF out.code # 997 THEN ErrSystem(out.code) ELSE OkUnit
    ELSE OkUnit

\* CtList::write_tag_async
write_tag_async(l, tag, value) ==
    /\ async_op.phase = "live"
    /\ lists[l].state = "live"
    /\ IF tag \notin DOMAIN lists[l].tag_map
       THEN /\ lastCall' = CallNoNative("write_tag_async", <<>>, ErrTagNotInList)
            /\ UNCHANGED <<async_op, inflight, initiated>>
       ELSE IF ~encode_to_gbk_cstring(value).ok
       THEN /\ lastCall' = CallNoNative("write_tag_async", <<>>, ErrNul)
            /\ UNCHANGED <<async_op, inflight, initiated>>
       ELSE \E out \in InitiateOutcomes :
               /\ NativeInitiate("list", out)
               /\ initiated' = TRUE
               /\ lastCall' = Call("write_tag_async", out, <<>>, write_tag_async_ret(out))
    /\ UNCHANGED <<created, event_closes, uaf, connVars>>
    /\ UNCHANGED tokioVars
    /\ UNCHANGED native

\* The native layer finishes (or aborts) an outstanding operation: it stores
\* the final status and, for a command, the result bytes.  When the
\* AsyncOperation is gone the stores go to freed memory.
NativeComplete(kind) ==
    /\ inflight[kind] > 0
    /\ inflight' = [inflight EXCEPT ![kind] = @ - 1]
    /\ IF async_op.phase = "live"
       THEN /\ \E st \in FinalStatuses :
               \E w \in (IF kind = "cicode" THEN NativeWrites(async_op.buffer)
                         ELSE {[n |-> 0, buf |-> async_op.buffer]}) :
                  async_op' = [async_op EXCEPT !.buffer = w.buf,
                                               !.overlapped.dwStatus = st,
                                               !.overlapped.dwLength = w.n]
            /\ UNCHANGED uaf
       ELSE /\ uaf' = TRUE
            /\ UNCHANGED async_op
    /\ UNCHANGED <<initiated, created, event_closes, lastCall, connVars>>
    /\ UNCHANGED tokioVars
    /\ UNCHANGED native

\* get_result_ret that unwraps the native answer
get_result_ret_unwrap(out, buffer) ==
    IF ~out.ok THEN Panic
    ELSE decode_result(out.bytes, buffer)

\* the return value of get_result once ctGetOverlappedResult(bWait = true) has answered
get_result_ret(out, buffer) ==
    IF ~out.ok THEN ErrSystem(out.code)
    ELSE decode_result(out.bytes, buffer)

\* get_result that returns only for an operation that finished with success
get_result_blocks_on_abort(c) ==
    /\ async_op.phase = "live"
    /\ clients[c].state = "live"
    /\ Outstanding = 0
    /\ async_op.overlapped.dwStatus = 0
    /\ \E out \in ResultOutcomes(async_op.buffer) :
          lastCall' = Call("get_result", out, <<>>,
                           get_result_ret(out, async_op.buffer))
    /\ UNCHANGED <<async_op, inflight, initiated, created, event_closes, uaf, connVars>>
    /\ UNCHANGED tokioVars
    /\ UNCHANGED native

\* AsyncOperation::get_result: the call blocks while the operation is outstanding
get_result(c) ==
    /\ async_op.phase = "live"
    /\ clients[c].state = "live"
    /\ Outstanding = 0
    /\ \E out \in ResultOutcomes(async_op.buffer) :
          lastCall' = Call("get_result", out, <<>>,
                           get_result_ret(out, async_op.buffer))
    /\ UNCHANGED <<async_op, inflight, initiated, created, event_closes, uaf, connVars>>
    /\ UNCHANGED tokioVars
    /\ UNCHANGED native

\* the return value of try_get_result once ctGetOverlappedResult(bWait = false) has answered
try_get_result_ret(out, buffer) ==
    IF out.ok THEN Some(decode_result(out.bytes, buffer))
    ELSE IF out.code = TRY_GET_RESULT_SWALLOWED THEN None
    ELSE Some(ErrSystem(out.code))

\* AsyncOperation::try_get_result: the native call cannot succeed while the
\* operation is outstanding
try_get_result(c) ==
    /\ async_op.phase = "live"
    /\ clients[c].state = "live"
    /\ \E out \in ResultOutcomes(async_op.buffer) :
          /\ Outstanding > 0 => ~out.ok
          /\ lastCall' = Call("try_get_result", out, <<>>,
                              try_get_result_ret(out, async_op.buffer))
    /\ UNCHANGED <<async_op, inflight, initiated, created, event_closes, uaf, connVars>>
    /\ UNCHANGED tokioVars
    /\ UNCHANGED native

\* cancel_ret that reports a rejected request as Ok(false)
cancel_ret_ok_false(out) ==
    IF ~out.ok THEN OkFalse ELSE OkTrue

\* the return value of cancel once ctCancelIO has answered
cancel_ret(out) ==
    IF ~out.ok THEN ErrSystem(out.code) ELSE OkTrue

\* AsyncOperation::cancel
cancel(c) ==
    /\ async_op.phase = "live"
    /\ clients[c].state = "live"
    /\ \E out \in InitiateOutcomes :
          lastCall' = Call("cancel", out, <<>>, cancel_ret(out))
    /\ UNCHANGED <<async_op, inflight, initiated, created, event_closes, uaf, connVars>>
    /\ UNCHANGED tokioVars
    /\ UNCHANGED native

\* reset that rebuilds the control block but leaves the buffer contents
reset_without_fill ==
    /\ async_op.phase = "live"
    /\ LET event_handle == async_op.event_handle
       IN  async_op' = [async_op EXCEPT
                           !.overlapped = [OVERLAPPED_new EXCEPT
                                              !.hEvent = event_handle,
                                              !.pData = async_op.buf_addr]]
    /\ initiated' = FALSE
    /\ lastCall' = CallNoNative("reset", async_op.buffer, NoRet)
    /\ UNCHANGED <<inflight, created, event_closes, uaf, connVars>>
    /\ UNCHANGED tokioVars
    /\ UNCHANGED native

\* AsyncOperation::reset
reset ==
    /\ async_op.phase = "live"
    /\ LET event_handle == async_op.event_handle
       IN  async_op' = [async_op EXCEPT
                           !.overlapped = [OVERLAPPED_new EXCEPT
                                              !.hEvent = event_handle,
                                              !.pData = async_op.buf_addr],
                           !.buffer = ZeroBuffer(Len(async_op.buffer))]
    /\ initiated' = FALSE
    /\ lastCall' = CallNoNative("reset", async_op.buffer, NoRet)
    /\ UNCHANGED <<inflight, created, event_closes, uaf, connVars>>
    /\ UNCHANGED tokioVars
    /\ UNCHANGED native

\* a Drop that releases the buffer and leaves the event handle open
drop_AsyncOperation_no_close ==
    /\ async_op.phase = "live"
    /\ async_op' = [async_op EXCEPT !.phase = "dropped"]
    /\ lastCall' = CallNoNative("drop", <<>>, NoRet)
    /\ UNCHANGED <<inflight, initiated, created, event_closes, uaf, connVars>>
    /\ UNCHANGED tokioVars
    /\ UNCHANGED native

\* impl Drop for AsyncOperation
drop_AsyncOperation ==
    /\ async_op.phase = "live"
    /\ async_op' = [async_op EXCEPT !.phase = "dropped"]
    /\ IF async_op.event_handle # NULL /\ async_op.event_handle # INVALID_HANDLE_VALUE
       THEN event_closes' = [event_closes EXCEPT ![async_op.event_handle] = @ + 1]
       ELSE UNCHANGED event_closes
    /\ lastCall' = CallNoNative("drop", <<>>, NoRet)
    /\ UNCHANGED <<inflight, initiated, created, uaf, connVars>>
    /\ UNCHANGED tokioVars
    /\ UNCHANGED native

\* client.rs: extract_string_from_buffer applied to a buffer the native layer filled
extract_string(buffer) ==
    /\ lastCall' = CallNoNative("extract_string_from_buffer", buffer,
                                extract_string_from_buffer(buffer))
    /\ UNCHANGED <<async_op, inflight, initiated, created, event_closes, uaf, connVars>>
    /\ UNCHANGED tokioVars
    /\ UNCHANGED native

\* answers of a synchronous native call that fills a local buffer: success
\* with any content, or a failure code
SyncOutcomes ==
    {[ok |-> TRUE, code |-> 0, bytes |-> 0, buf |-> w] : w \in BuffersOfLen(MaxDecodeBuf)}
    \cup {[ok |-> FALSE, code |-> c, bytes |-> 0, buf |-> <<>>] : c \in NativeErrorCodes}

\* CtClient::cicode: the synchronous command, decoded from a local buffer
cicode(c, cmd) ==
    /\ clients[c].state = "live"
    /\ IF ~encode_to_gbk_cstring(cmd).ok
       THEN lastCall' = CallNoNative("cicode", <<>>, ErrInvalidParameter)
       ELSE \E out \in SyncOutcomes :
               lastCall' = Call("cicode", out, out.buf,
                                IF ~out.ok THEN ErrSystem(out.code)
                                ELSE decode_response_buffer(out.buf))
    /\ UNCHANGED <<async_op, inflight, initiated, created, event_closes, uaf, connVars>>
    /\ UNCHANGED tokioVars
    /\ UNCHANGED native

\* CtClient::tag_read
tag_read(c, tag) ==
    /\ clients[c].state = "live"
    /\ IF ~encode_to_gbk_cstring(tag).ok
       THEN lastCall' = CallNoNative("tag_read", <<>>, ErrTagNotFound)
       ELSE \E out \in SyncOutcomes :
               lastCall' = Call("tag_read", out, out.buf,
                                IF ~out.ok THEN ErrSystem(out.code)
                                ELSE decode_response_buffer(out.buf))
    /\ UNCHANGED <<async_op, inflight, initiated, created, event_closes, uaf, connVars>>
    /\ UNCHANGED tokioVars
    /\ UNCHANGED native

\* encode_to_gbk_cstring applied to a string: the CString it yields, or NulError
encode_string(s) ==
    /\ lastCall' = CallNoNative("encode_to_gbk_cstring", s,
                                IF encode_to_gbk_cstring(s).ok
                                THEN Ok(encode_to_gbk_cstring(s).bytes)
                                ELSE ErrNul)
    /\ UNCHANGED <<async_op, inflight, initiated, created, event_closes, uaf, connVars>>
    /\ UNCHANGED tokioVars
    /\ UNCHANGED native

\* the bytes of the CString just encoded (with their terminator) handed to
\* extract_string_from_buffer
decode_encoded ==
    /\ lastCall.op = "encode_to_gbk_cstring"
    /\ lastCall.ret.kind = "Ok"
    /\ lastCall' = CallNoNative("round_trip", lastCall.input,
                                extract_string_from_buffer(lastCall.ret.text \o <<0>>))
    /\ UNCHANGED <<async_op, inflight, initiated, created, event_closes, uaf, connVars>>
    /\ UNCHANGED tokioVars
    /\ UNCHANGED native

(***************************************************************************)
(* CtClient, CtList, CtFind (client.rs, list.rs, find.rs).                 *)
(* A CtClient value is owned directly (arcs = 0) or lives in an Arc with   *)
(* arcs strong references.  A CtList / CtFind holds a shared borrow of the *)
(* CtClient value it was made from, so the compiler rejects a program that *)
(* drops or moves that value while the derived object is alive.            *)
(***************************************************************************)
Clients ==
    1..MaxClients

Derived ==
    1..MaxDerived

NoClient ==
    [state |-> "none", handle |-> NULL, arcs |-> 0]

NoList ==
    [state |-> "none", client |-> 0, handle |-> NULL, tag_map |-> <<>>]

NoFind ==
    [state |-> "none", client |-> 0, handle |-> NULL, is_end |-> FALSE]

\* the native layer before any list or search exists
NoNative ==
    [list_free |-> [l \in Derived |-> 0],
     find_close |-> [f \in Derived |-> 0],
     find_first |-> [f \in Derived |-> 0],
     find_next |-> [f \in Derived |-> 0],
     items |-> [l \in Derived |-> {}],
     next_item |-> 0]

\* the native layer after  list_new; add_tag(Tag1)  on list 1
NativeWithTag1 ==
    [NoNative EXCEPT !.items[1] = {1}, !.next_item = 1]

\* a live CtList<'a> or CtFind<'a> holds  client: &'a CtClient
Borrowed(c) ==
    \/ \E l \in Derived : lists[l].state = "live" /\ lists[l].client = c
    \/ \E f \in Derived : finds[f].state = "live" /\ finds[f].client = c

\* CtClient::open: ctOpen answers a fresh connection handle or NULL
open(c, handle) ==
    /\ clients[c].state = "none"
    /\ opened < MaxHandles
    /\ handle \in {NULL, opened + 1}
    /\ IF handle = NULL
       THEN /\ lastCall' = CallNoNative("open", <<>>, ErrSystem(5))
            /\ UNCHANGED <<clients, conn_open, opened>>
       ELSE /\ clients' = [clients EXCEPT ![c] = [state |-> "live", handle |-> handle, arcs |-> 0]]
            /\ conn_open' = conn_open \cup {handle}
            /\ opened' = opened + 1
            /\ lastCall' = CallNoNative("open", <<>>, OkUnit)
    /\ UNCHANGED <<lists, finds, close_calls>>
    /\ UNCHANGED <<async_op, inflight, initiated, created, event_closes, uaf>>
    /\ UNCHANGED tokioVars
    /\ UNCHANGED native

\* #[derive(Clone)] on CtClient: the clone is a new owner of the same handle
clone_CtClient(c, d) ==
    /\ clients[c].state = "live"
    /\ clients[d].state = "none"
    /\ clients' = [clients EXCEPT ![d] = [state |-> "live", handle |-> clients[c].handle, arcs |-> 0]]
    /\ UNCHANGED <<lists, finds, conn_open, close_calls, opened, asyncVars>>
    /\ UNCHANGED tokioVars
    /\ UNCHANGED native

\* impl Drop for CtClient, run on the value c
DropClientValue(c) ==
    /\ clients' = [clients EXCEPT ![c].state = "dropped", ![c].arcs = 0]
    /\ IF clients[c].handle # NULL
       THEN /\ close_calls' = [close_calls EXCEPT ![clients[c].handle] = @ + 1]
            /\ conn_open' = conn_open \ {clients[c].handle}
       ELSE UNCHANGED <<close_calls, conn_open>>

\* a directly owned CtClient goes out of scope
drop_CtClient(c) ==
    /\ clients[c].state = "live"
    /\ clients[c].arcs = 0
    /\ ~Borrowed(c)
    /\ DropClientValue(c)
    /\ UNCHANGED <<lists, finds, opened, asyncVars>>
    /\ UNCHANGED tokioVars
    /\ UNCHANGED native

\* Arc::new(client)
Arc_new(c) ==
    /\ clients[c].state = "live"
    /\ clients[c].arcs = 0
    /\ ~Borrowed(c)
    /\ clients' = [clients EXCEPT ![c].arcs = 1]
    /\ UNCHANGED <<lists, finds, conn_open, close_calls, opened, asyncVars>>
    /\ UNCHANGED tokioVars
    /\ UNCHANGED native

\* Arc::clone(&client)
Arc_clone(c) ==
    /\ clients[c].state = "live"
    /\ clients[c].arcs >= 1
    /\ clients[c].arcs < MaxClients
    /\ clients' = [clients EXCEPT ![c].arcs = @ + 1]
    /\ UNCHANGED <<lists, finds, conn_open, close_calls, opened, asyncVars>>
    /\ UNCHANGED tokioVars
    /\ UNCHANGED native

\* an Arc<CtClient> goes out of scope: the last one drops the CtClient
Arc_drop(c) ==
    /\ clients[c].state = "live"
    /\ clients[c].arcs >= 1
    /\ IF clients[c].arcs = 1
       THEN /\ ~Borrowed(c)
            /\ DropClientValue(c)
       ELSE /\ clients' = [clients EXCEPT ![c].arcs = @ - 1]
            /\ UNCHANGED <<close_calls, conn_open>>
    /\ UNCHANGED <<lists, finds, opened, asyncVars>>
    /\ UNCHANGED tokioVars
    /\ UNCHANGED native

\* CtClient::list_new: ctListNew answers a list handle or NULL
list_new(c, l, handle) ==
    /\ clients[c].state = "live"
    /\ lists[l].state = "none"
    /\ handle \in {NULL, l}
    /\ IF handle = NULL
       THEN /\ lastCall' = CallNoNative("list_new", <<>>, ErrSystem(5))
            /\ UNCHANGED lists
       ELSE /\ lists' = [lists EXCEPT ![l] = [state |-> "live", client |-> c,
                                               handle |-> handle, tag_map |-> <<>>]]
            /\ lastCall' = CallNoNative("list_new", <<>>, OkUnit)
    /\ UNCHANGED <<clients, finds, conn_open, close_calls, opened>>
    /\ UNCHANGED <<async_op, inflight, initiated, created, event_closes, uaf>>
    /\ UNCHANGED tokioVars
    /\ UNCHANGED native

\* tag_map.insert(tag, handle)
Insert(tag_map, tag, handle) ==
    [t \in DOMAIN tag_map \cup {tag} |-> IF t = tag THEN handle ELSE tag_map[t]]

\* tag_map.remove(tag)
Remove(tag_map, tag) ==
    [t \in DOMAIN tag_map \ {tag} |-> tag_map[t]]

\* failures of the list calls: the codes that mean neither "pending" nor "incomplete"
ListFailures ==
    {f \in NativeFailures : f.code \notin {ERROR_IO_PENDING, ERROR_IO_INCOMPLETE}}

\* answers of ctListDelete
ListDeleteOutcomes ==
    {[ok |-> TRUE, code |-> 0, bytes |-> 0]} \cup ListFailures

\* answers of ctListData: the value's bytes in the buffer, or a failure
ListDataOutcomes ==
    {[ok |-> TRUE, code |-> 0, bytes |-> 0, buf |-> b] : b \in BuffersOfLen(MaxBuf)}
    \cup {[ok |-> FALSE, code |-> f.code, bytes |-> 0, buf |-> <<>>] : f \in ListFailures}

\* answers of ctListAdd / ctListAddEx: a fresh item handle, or NULL with a code
ListAddOutcomes ==
    (IF native.next_item < MaxItems
     THEN {[ok |-> TRUE, code |-> 0, bytes |-> 0, handle |-> native.next_item + 1]}
     ELSE {})
    \cup {[ok |-> FALSE, code |-> f.code, bytes |-> 0, handle |-> NULL] : f \in ListFailures}

\* what add_tag and add_tag_ex do once the native call has answered
AddTag(name, l, tag) ==
    /\ lists[l].state = "live"
    /\ IF ~encode_to_gbk_cstring(tag).ok
       THEN /\ lastCall' = CallNoNative(name, <<>>, ErrNul)
            /\ UNCHANGED <<lists, native>>
       ELSE \E out \in ListAddOutcomes :
               IF out.handle = NULL
               THEN /\ lastCall' = Call(name, out, <<>>, ErrSystem(out.code))
                    /\ UNCHANGED <<lists, native>>
               ELSE /\ lastCall' = Call(name, out, <<>>, OkUnit)
                    /\ lists' = [lists EXCEPT ![l].tag_map = Insert(@, tag, out.handle)]
                    /\ native' = [native EXCEPT !.items[l] = @ \cup {out.handle},
                                                !.next_item = out.handle]
    /\ UNCHANGED <<clients, finds, conn_open, close_calls, opened>>
    /\ UNCHANGED <<async_op, inflight, initiated, created, event_closes, uaf, tokioVars>>

\* CtList::add_tag
add_tag(l, tag) ==
    AddTag("add_tag", l, tag)

\* CtList::add_tag_ex
add_tag_ex(l, tag) ==
    AddTag("add_tag_ex", l, tag)

\* CtList::delete_tag
delete_tag(l, tag) ==
    /\ lists[l].state = "live"
    /\ IF tag \notin DOMAIN lists[l].tag_map
       THEN /\ lastCall' = CallNoNative("delete_tag", <<>>, ErrTagNotInList)
            /\ UNCHANGED <<lists, native>>
       ELSE \E out \in ListDeleteOutcomes :
               IF ~out.ok
               THEN /\ lastCall' = Call("delete_tag", out, <<>>, ErrSystem(out.code))
                    /\ UNCHANGED <<lists, native>>
               ELSE /\ lastCall' = Call("delete_tag", out, <<>>, OkUnit)
                    /\ lists' = [lists EXCEPT ![l].tag_map = Remove(@, tag)]
                    /\ native' = [native EXCEPT !.items[l] = @ \ {lists[l].tag_map[tag]}]
    /\ UNCHANGED <<clients, finds, conn_open, close_calls, opened>>
    /\ UNCHANGED <<async_op, inflight, initiated, created, event_closes, uaf, tokioVars>>

\* CtList::read_tag
read_tag(l, tag) ==
    /\ lists[l].state = "live"
    /\ IF tag \notin DOMAIN lists[l].tag_map
       THEN lastCall' = CallNoNative("read_tag", <<>>, ErrTagNotInList)
       ELSE \E out \in ListDataOutcomes :
               lastCall' = Call("read_tag", out, <<>>,
                                IF ~out.ok THEN ErrSystem(out.code)
                                ELSE extract_string_from_buffer(out.buf))
    /\ UNCHANGED <<async_op, inflight, initiated, created, event_closes, uaf, tokioVars>>
    /\ UNCHANGED <<connVars, native>>

\* impl Drop for CtList: ctListFree releases the list and its items
drop_CtList(l) ==
    /\ lists[l].state = "live"
    /\ lists' = [lists EXCEPT ![l].state = "dropped"]
    /\ IF lists[l].handle # NULL
       THEN native' = [native EXCEPT !.list_free[l] = @ + 1, !.items[l] = {}]
       ELSE UNCHANGED native
    /\ UNCHANGED <<clients, finds, conn_open, close_calls, opened, asyncVars>>
    /\ UNCHANGED tokioVars

\* CtClient::find_first / CtFind::new: no native call is made yet
find_first(c, f) ==
    /\ clients[c].state = "live"
    /\ finds[f].state = "none"
    /\ finds' = [finds EXCEPT ![f] = [state |-> "live", client |-> c,
                                       handle |-> NULL, is_end |-> FALSE]]
    /\ UNCHANGED <<clients, lists, conn_open, close_calls, opened, asyncVars>>
    /\ UNCHANGED tokioVars
    /\ UNCHANGED native

\* next that does not look at is_end
next_ignoring_end(f) ==
    /\ finds[f].state = "live"
    /\ IF finds[f].handle = NULL
       THEN \E handle \in {NULL, f} :
               /\ native' = [native EXCEPT !.find_first[f] = @ + 1]
               /\ finds' = [finds EXCEPT ![f].handle = handle,
                                         ![f].is_end = (handle = NULL)]
               /\ lastCall' = [Call("next", [ok |-> handle # NULL, code |-> 0, bytes |-> 0],
                                     <<>>, IF handle = NULL THEN None ELSE Some(OkUnit))
                                  EXCEPT !.code = 1]
       ELSE \E more \in {b \in BOOLEAN : b => native.find_next[f] < MaxFound} :
               /\ native' = [native EXCEPT !.find_next[f] = @ + 1]
               /\ finds' = [finds EXCEPT ![f].is_end = ~more]
               /\ lastCall' = [Call("next", [ok |-> more, code |-> 0, bytes |-> 0],
                                     <<>>, IF more THEN Some(OkUnit) ELSE None)
                                  EXCEPT !.code = 2]
    /\ UNCHANGED <<clients, lists, conn_open, close_calls, opened, tokioVars>>
    /\ UNCHANGED <<async_op, inflight, initiated, created, event_closes, uaf>>

\* impl Iterator for CtFind: next.  lastCall.code tells which native call was
\* issued: 1 for ctFindFirst / ctFindFirstEx, 2 for ctFindNext
next(f) ==
    /\ finds[f].state = "live"
    /\ IF finds[f].is_end
       THEN /\ lastCall' = CallNoNative("next", <<>>, None)
            /\ UNCHANGED <<finds, native>>
       ELSE IF finds[f].handle = NULL
       THEN \E handle \in {NULL, f} :
               /\ native' = [native EXCEPT !.find_first[f] = @ + 1]
               /\ finds' = [finds EXCEPT ![f].handle = handle,
                                         ![f].is_end = (handle = NULL)]
               /\ lastCall' = [Call("next", [ok |-> handle # NULL, code |-> 0, bytes |-> 0],
                                     <<>>, IF handle = NULL THEN None ELSE Some(OkUnit))
                                  EXCEPT !.code = 1]
       ELSE \E more \in {b \in BOOLEAN : b => native.find_next[f] < MaxFound} :
               /\ native' = [native EXCEPT !.find_next[f] = @ + 1]
               /\ finds' = [finds EXCEPT ![f].is_end = ~more]
               /\ lastCall' = [Call("next", [ok |-> more, code |-> 0, bytes |-> 0],
                                     <<>>, IF more THEN Some(OkUnit) ELSE None)
                                  EXCEPT !.code = 2]
    /\ UNCHANGED <<clients, lists, conn_open, close_calls, opened, tokioVars>>
    /\ UNCHANGED <<async_op, inflight, initiated, created, event_closes, uaf>>

\* a Drop of CtFind that closes the search handle without the NULL check
drop_CtFind_unchecked(f) ==
    /\ finds[f].state = "live"
    /\ finds' = [finds EXCEPT ![f].state = "dropped"]
    /\ native' = [native EXCEPT !.find_close[f] = @ + 1]
    /\ UNCHANGED <<clients, lists, conn_open, close_calls, opened, asyncVars>>
    /\ UNCHANGED tokioVars

\* impl Drop for CtFind
drop_CtFind(f) ==
    /\ finds[f].state = "live"
    /\ finds' = [finds EXCEPT ![f].state = "dropped"]
    /\ IF finds[f].handle # NULL
       THEN native' = [native EXCEPT !.find_close[f] = @ + 1]
       ELSE UNCHANGED native
    /\ UNCHANGED <<clients, lists, conn_open, close_calls, opened, asyncVars>>
    /\ UNCHANGED tokioVars

(***************************************************************************)
(* The tokio bridge (tokio_async.rs).  cicode_tokio hands a closure to the *)
(* blocking pool; the closure creates an AsyncOperation, initiates the     *)
(* command, waits for the result and returns it, dropping the              *)
(* AsyncOperation and its client; the future resolves with what the        *)
(* closure returned.  read_tokio keeps the AsyncOperation as a local of    *)
(* the future and sleeps between completion checks.  A task is one call:   *)
(* pc is the position of its code, fut the state of its future, out what   *)
(* the future resolved to, steps / init / wait what the worker did.        *)
(***************************************************************************)
Tasks ==
    1..MaxTasks

NoTask ==
    [pc |-> "idle", cmd |-> <<>>, ret |-> NoRet, kind |-> "", own |-> "", list |-> 0,
     fut |-> "none", out |-> NoRet, steps |-> <<>>, init |-> NoRet, wait |-> NoRet]

NoTaskOp ==
    [state |-> "none", buffer |-> <<>>, dwStatus |-> 0, pending |-> {}, users |-> {}]

\* the result text the native layer computes for the command of call t
Answer(t) ==
    <<64 + t>>

\* the native layer stores a text and its terminator at the start of a buffer
WriteAnswer(buffer, text) ==
    [i \in 1..Len(buffer) |->
        IF i <= Len(text) THEN text[i]
        ELSE IF i = Len(text) + 1 THEN 0
        ELSE buffer[i]]

\* one AsyncOperation shared by every call
OpOf_shared(t) ==
    1

\* the AsyncOperation call t uses: the local  async_op  of its own closure / future
OpOf(t) ==
    t

\* let mut async_op = AsyncOperation::new();  as call t runs it
TaskOpNew(t) ==
    [state |-> "live", buffer |-> ZeroBuffer(MaxBuf + 1), dwStatus |-> 0,
     pending |-> {}, users |-> task_ops[OpOf(t)].users \cup {t}]

\* the control block of call t's AsyncOperation, as is_complete reads it
TaskOverlapped(op) ==
    [overlapped |-> [dwStatus |-> op.dwStatus]]

\* Arc<CtClient>::cicode_tokio up to spawn_blocking: Arc::clone(self), cmd.to_string()
cicode_tokio(t, cmd) ==
    /\ tasks[t].pc = "idle"
    /\ clients[1].state = "live"
    /\ clients[1].arcs >= 1
    /\ tasks' = [tasks EXCEPT ![t] = [NoTask EXCEPT !.pc = "spawned", !.cmd = cmd,
                                         !.kind = "cicode", !.own = "arc", !.fut = "pending"]]
    /\ clients' = [clients EXCEPT ![1].arcs = @ + 1]
    /\ UNCHANGED <<task_ops, lists, finds, conn_open, close_calls, opened, asyncVars>>
    /\ UNCHANGED native

\* CtClient::cicode_tokio up to spawn_blocking: Arc::new(self.clone()), cmd.to_string();
\* the closure owns a clone of the CtClient, a second value with the same handle
cicode_tokio_CtClient(t, cmd) ==
    /\ tasks[t].pc = "idle"
    /\ clients[1].state = "live"
    /\ tasks' = [tasks EXCEPT ![t] = [NoTask EXCEPT !.pc = "spawned", !.cmd = cmd,
                                         !.kind = "cicode", !.own = "clone", !.fut = "pending"]]
    /\ UNCHANGED <<task_ops, connVars, asyncVars>>
    /\ UNCHANGED native

\* the closure's  let mut async_op = AsyncOperation::new();
closure_AsyncOperation_new(t) ==
    /\ tasks[t].pc = "spawned"
    /\ tasks' = [tasks EXCEPT ![t].pc = "created", ![t].steps = Append(@, "Create")]
    /\ task_ops' = [task_ops EXCEPT ![OpOf(t)] = TaskOpNew(t)]
    /\ UNCHANGED <<connVars, asyncVars>>
    /\ UNCHANGED native

\* the closure of task  returns r: its locals async_op and client are dropped.
\* The client is an Arc of the caller's CtClient (Arc<CtClient> impl) or the
\* only Arc of a clone (CtClient impl), whose Drop then runs ctClose.
ClosureReturns(t, task, r) ==
    /\ tasks' = [tasks EXCEPT ![t] = [task EXCEPT !.pc = "returned", !.cmd = <<>>, !.ret = r]]
    /\ task_ops' = [task_ops EXCEPT ![OpOf(t)].state = "dropped",
                                    ![OpOf(t)].users = @ \cup {t}]
    /\ IF task.own = "clone"
       THEN /\ IF clients[1].handle # NULL
               THEN /\ close_calls' = [close_calls EXCEPT ![clients[1].handle] = @ + 1]
                    /\ conn_open' = conn_open \ {clients[1].handle}
               ELSE UNCHANGED <<close_calls, conn_open>>
            /\ UNCHANGED clients
       ELSE IF clients[1].arcs = 1
       THEN DropClientValue(1)
       ELSE /\ clients' = [clients EXCEPT ![1].arcs = @ - 1]
            /\ UNCHANGED <<close_calls, conn_open>>

\* a closure that goes on to the wait when the initiation failed
closure_cicode_async_ignoring_error(t) ==
    /\ tasks[t].pc = "created"
    /\ \E out \in InitiateOutcomes :
          LET r == IF ~encode_to_gbk_cstring(tasks[t].cmd).ok THEN ErrInvalidParameter
                   ELSE cicode_async_ret(out)
          IN  /\ tasks' = [tasks EXCEPT ![t].pc = "initiated",
                                        ![t].steps = Append(@, "Initiate"),
                                        ![t].init = r]
              /\ task_ops' = [task_ops EXCEPT ![OpOf(t)].users = @ \cup {t}]
    /\ UNCHANGED <<connVars, asyncVars>>
    /\ UNCHANGED native

\* the closure's  client.cicode_async(&cmd, vh_win, mode, &mut async_op)?;
closure_cicode_async(t) ==
    /\ tasks[t].pc = "created"
    /\ LET did == [tasks[t] EXCEPT !.steps = Append(@, "Initiate")]
       IN  IF ~encode_to_gbk_cstring(tasks[t].cmd).ok
           THEN ClosureReturns(t, [did EXCEPT !.init = ErrInvalidParameter], ErrInvalidParameter)
           ELSE \E out \in InitiateOutcomes :
                   IF cicode_async_ret(out).kind = "Err"
                   THEN ClosureReturns(t, [did EXCEPT !.init = cicode_async_ret(out)],
                                       cicode_async_ret(out))
                   ELSE /\ tasks' = [tasks EXCEPT ![t] = [did EXCEPT !.pc = "initiated",
                                                             !.init = cicode_async_ret(out)]]
                        /\ task_ops' = [task_ops EXCEPT
                              ![OpOf(t)].buffer = IF out.ok THEN WriteAnswer(@, Answer(t)) ELSE @,
                              ![OpOf(t)].dwStatus = IF out.ok THEN 0 ELSE STATUS_PENDING,
                              ![OpOf(t)].pending = IF out.ok THEN @ ELSE @ \cup {t},
                              ![OpOf(t)].users = @ \cup {t}]
                        /\ UNCHANGED <<clients, close_calls, conn_open>>
    /\ UNCHANGED <<lists, finds, opened, asyncVars>>
    /\ UNCHANGED native

\* the native layer finishes (or aborts) the operation of call t, outstanding
\* against the control block and buffer of AsyncOperation o; a command's
\* result text goes to the buffer, a list read leaves the buffer alone
NativeCompleteTask(o, t) ==
    /\ t \in task_ops[o].pending
    /\ IF task_ops[o].state = "live"
       THEN /\ \E st \in FinalStatuses :
                  task_ops' = [task_ops EXCEPT
                      ![o].buffer = IF st = 0 /\ tasks[t].kind = "cicode"
                                    THEN WriteAnswer(@, Answer(t)) ELSE @,
                      ![o].dwStatus = st,
                      ![o].pending = @ \ {t}]
            /\ UNCHANGED uaf
       ELSE /\ task_ops' = [task_ops EXCEPT ![o].pending = @ \ {t}]
            /\ uaf' = TRUE
    /\ UNCHANGED <<tasks, connVars>>
    /\ UNCHANGED <<async_op, inflight, initiated, created, event_closes, lastCall>>
    /\ UNCHANGED native

\* the closure's  async_op.get_result(&client) , which blocks while a command
\* is outstanding against the AsyncOperation, followed by the closure's end
closure_get_result(t) ==
    /\ tasks[t].pc = "initiated"
    /\ task_ops[OpOf(t)].pending = {}
    /\ \E out \in ResultOutcomes(task_ops[OpOf(t)].buffer) :
          LET r == get_result_ret(out, task_ops[OpOf(t)].buffer)
          IN  ClosureReturns(t, [tasks[t] EXCEPT !.steps = Append(@, "Wait"), !.wait = r], r)
    /\ UNCHANGED <<lists, finds, opened, asyncVars>>
    /\ UNCHANGED native

\* cicode_tokio's  .await.map_err(..)? : the JoinHandle is ready once the
\* closure has ended; a panic of the closure becomes CtApiError::Other
await_join(t) ==
    /\ tasks[t].kind = "cicode"
    /\ tasks[t].fut = "pending"
    /\ tasks[t].pc = "returned"
    /\ tasks' = [tasks EXCEPT ![t].fut = "resolved",
                              ![t].out = IF tasks[t].ret = Panic THEN ErrOther ELSE tasks[t].ret]
    /\ UNCHANGED <<task_ops, connVars, asyncVars>>
    /\ UNCHANGED native

\* a list is mutably borrowed by a read_tokio future that has not ended
Reading(l) ==
    \E t \in Tasks : tasks[t].kind = "read" /\ tasks[t].list = l /\ tasks[t].fut = "pending"

\* read_tokio ends with r: the future's local async_op is dropped
ReadResolves(t, l, op, r) ==
    /\ tasks' = [tasks EXCEPT ![t] = [NoTask EXCEPT !.pc = "returned", !.kind = "read", !.list = l,
                                         !.ret = r, !.fut = "resolved", !.out = r,
                                         !.steps = tasks[t].steps]]
    /\ task_ops' = [task_ops EXCEPT ![OpOf(t)] = [op EXCEPT !.state = "dropped"]]

\* CtList::read_tokio up to its first await: AsyncOperation::new, read_async
\* (its error mapped to CtApiError::Other), the first is_complete check
read_tokio(t, l) ==
    /\ tasks[t].pc = "idle"
    /\ lists[l].state = "live"
    /\ ~Reading(l)
    /\ \E out \in InitiateOutcomes :
          IF read_async_ret(out).kind = "Err"
          THEN ReadResolves(t, l, TaskOpNew(t), ErrOther)
          ELSE LET op == [TaskOpNew(t) EXCEPT
                             !.dwStatus = IF out.ok THEN 0 ELSE STATUS_PENDING,
                             !.pending = IF out.ok THEN {} ELSE {t}]
               IN  IF is_complete(TaskOverlapped(op))
                   THEN ReadResolves(t, l, op, OkUnit)
                   ELSE /\ tasks' = [tasks EXCEPT ![t] = [NoTask EXCEPT !.pc = "sleeping",
                                                             !.kind = "read", !.list = l,
                                                             !.fut = "pending",
                                                             !.steps = <<"Sleep">>]]
                        /\ task_ops' = [task_ops EXCEPT ![OpOf(t)] = op]
    /\ UNCHANGED <<connVars, asyncVars>>
    /\ UNCHANGED native

\* read_tokio after a sleep: the loop's next is_complete check
read_tokio_wake(t) ==
    /\ tasks[t].kind = "read"
    /\ tasks[t].pc = "sleeping"
    /\ tasks[t].fut = "pending"
    /\ IF is_complete(TaskOverlapped(task_ops[OpOf(t)]))
       THEN ReadResolves(t, tasks[t].list, task_ops[OpOf(t)], OkUnit)
       ELSE UNCHANGED <<tasks, task_ops>>
    /\ UNCHANGED <<connVars, asyncVars>>
    /\ UNCHANGED native

\* the caller drops the future before it resolves (a timeout, a select!):
\* the closure of cicode_tokio runs on in the blocking pool, the locals of
\* read_tokio, its AsyncOperation among them, are dropped with the future
drop_future(t) ==
    /\ tasks[t].fut = "pending"
    /\ IF tasks[t].kind = "read"
       THEN /\ tasks' = [tasks EXCEPT ![t].fut = "dropped", ![t].pc = "dropped"]
            /\ task_ops' = [task_ops EXCEPT ![OpOf(t)].state = "dropped"]
       ELSE /\ tasks' = [tasks EXCEPT ![t].fut = "dropped"]
            /\ UNCHANGED task_ops
    /\ UNCHANGED <<connVars, asyncVars>>
    /\ UNCHANGED native

(***************************************************************************)
(* Specifications.                                                         *)
(***************************************************************************)
\* the tag the list of specification Spec holds
Tag1 ==
    <<65>>

\* tag names passed to the list operations
TagNames ==
    {<<65>>, <<65, 65>>}

\* Spec starts after  open; list_new; add_tag(Tag1) : one open connection and
\* one list with one tag, no AsyncOperation yet
Init ==
    /\ async_op = NoAsyncOp
    /\ inflight = NoneInflight
    /\ initiated = FALSE
    /\ created = 0
    /\ event_closes = [h \in 1..MaxOps |-> 0]
    /\ uaf = FALSE
    /\ lastCall = NoCall
    /\ clients = [c \in Clients |->
                     IF c = 1 THEN [state |-> "live", handle |-> 1, arcs |-> 0] ELSE NoClient]
    /\ lists = [l \in Derived |->
                   IF l = 1 THEN [state |-> "live", client |-> 1, handle |-> 1,
                                  tag_map |-> (Tag1 :> 1)]
                   ELSE NoList]
    /\ finds = [f \in Derived |-> NoFind]
    /\ conn_open = {1}
    /\ close_calls = [h \in 1..MaxHandles |-> 0]
    /\ opened = 1
    /\ tasks = [t \in Tasks |-> NoTask]
    /\ task_ops = [t \in Tasks |-> NoTaskOp]
    /\ native = NativeWithTag1

Next ==
    \/ \E n \in 0..MaxBuf, e \in 0..MaxOps, a \in HeapAddrs \cup DanglingAddrs :
          with_buffer_size(n, e, a)
    \/ \E c \in Clients, cmd \in ArgStrings : cicode_async(c, cmd)
    \/ \E l \in Derived : read_async(l)
    \/ \E l \in Derived, tag \in TagNames, value \in ArgStrings : write_tag_async(l, tag, value)
    \/ \E kind \in {"cicode", "list"} : NativeComplete(kind)
    \/ \E c \in Clients : get_result(c)
    \/ \E c \in Clients : try_get_result(c)
    \/ \E c \in Clients : cancel(c)
    \/ reset
    \/ drop_AsyncOperation

Spec ==
    Init /\ [][Next]_vars

\* SpecDecode applies the decoding functions to every buffer content, through
\* the retrieval calls and the synchronous wrappers: it starts with a
\* completed AsyncOperation whose buffer the native layer has filled, on an
\* open connection
InitDecode ==
    /\ \E n \in 0..MaxDecodeBuf : \E b \in BuffersOfLen(n) :
          async_op = [phase |-> "live",
                      overlapped |-> [OVERLAPPED_new EXCEPT
                                         !.hEvent = 1,
                                         !.pData = IF n = 0 THEN 1 ELSE 16],
                      buffer |-> b,
                      buf_addr |-> IF n = 0 THEN 1 ELSE 16,
                      event_handle |-> 1]
    /\ inflight = NoneInflight
    /\ initiated = TRUE
    /\ created = 1
    /\ event_closes = [h \in 1..MaxOps |-> 0]
    /\ uaf = FALSE
    /\ lastCall = NoCall
    /\ clients = [c \in Clients |->
                     IF c = 1 THEN [state |-> "live", handle |-> 1, arcs |-> 0] ELSE NoClient]
    /\ lists = [l \in Derived |-> NoList]
    /\ finds = [f \in Derived |-> NoFind]
    /\ conn_open = {1}
    /\ close_calls = [h \in 1..MaxHandles |-> 0]
    /\ opened = 1
    /\ tasks = [t \in Tasks |-> NoTask]
    /\ task_ops = [t \in Tasks |-> NoTaskOp]
    /\ native = NoNative

NextDecode ==
    \/ \E c \in Clients : get_result(c)
    \/ \E c \in Clients : try_get_result(c)
    \/ \E c \in Clients : cancel(c)
    \/ \E c \in Clients, cmd \in ArgStrings : cicode(c, cmd)
    \/ \E c \in Clients, tag \in ArgStrings : tag_read(c, tag)
    \/ \E n \in 0..MaxDecodeBuf : \E b \in BuffersOfLen(n) : extract_string(b)

SpecDecode ==
    InitDecode /\ [][NextDecode]_vars

\* SpecCancel follows a caller that initiates, may cancel, and after an
\* accepted cancel request goes on to Wait (get_result): it starts with a
\* created AsyncOperation on an open connection with a list
InitCancel ==
    /\ \E n \in 0..MaxBuf :
          async_op = [phase |-> "live",
                      overlapped |-> [OVERLAPPED_new EXCEPT
                                         !.hEvent = 1,
                                         !.pData = IF n = 0 THEN 1 ELSE 16],
                      buffer |-> ZeroBuffer(n),
                      buf_addr |-> IF n = 0 THEN 1 ELSE 16,
                      event_handle |-> 1]
    /\ inflight = NoneInflight
    /\ initiated = FALSE
    /\ created = 1
    /\ event_closes = [h \in 1..MaxOps |-> 0]
    /\ uaf = FALSE
    /\ lastCall = NoCall
    /\ clients = [c \in Clients |->
                     IF c = 1 THEN [state |-> "live", handle |-> 1, arcs |-> 0] ELSE NoClient]
    /\ lists = [l \in Derived |->
                   IF l = 1 THEN [state |-> "live", client |-> 1, handle |-> 1,
                                  tag_map |-> (Tag1 :> 1)]
                   ELSE NoList]
    /\ finds = [f \in Derived |-> NoFind]
    /\ conn_open = {1}
    /\ close_calls = [h \in 1..MaxHandles |-> 0]
    /\ opened = 1
    /\ tasks = [t \in Tasks |-> NoTask]
    /\ task_ops = [t \in Tasks |-> NoTaskOp]
    /\ native = NativeWithTag1

\* the last call was a cancel request the native layer accepted
CancelAccepted ==
    lastCall.op = "cancel" /\ lastCall.ok

\* the Wait that follows an accepted cancel request
WaitAfterCancel ==
    CancelAccepted /\ \E c \in Clients : get_result(c)

\* the native layer finishes or aborts a request
NativeFinishes ==
    \E kind \in {"cicode", "list"} : NativeComplete(kind)

NextCancel ==
    \/ ~CancelAccepted /\ \E c \in Clients, cmd \in ArgStrings : cicode_async(c, cmd)
    \/ ~CancelAccepted /\ \E l \in Derived : read_async(l)
    \/ ~CancelAccepted /\ \E c \in Clients : cancel(c)
    \/ ~CancelAccepted /\ \E c \in Clients : get_result(c)
    \/ WaitAfterCancel
    \/ NativeFinishes

\* the native layer eventually finishes or aborts every request, and the
\* caller that had its cancel request accepted goes on to Wait
SpecCancel ==
    /\ InitCancel
    /\ [][NextCancel]_vars
    /\ WF_vars(NativeFinishes)
    /\ WF_vars(WaitAfterCancel)

\* SpecCodec applies the encoder, and the decoder to what it produced, to
\* every string of Strings
InitCodec ==
    /\ async_op = NoAsyncOp
    /\ inflight = NoneInflight
    /\ initiated = FALSE
    /\ created = 0
    /\ event_closes = [h \in 1..MaxOps |-> 0]
    /\ uaf = FALSE
    /\ lastCall = NoCall
    /\ clients = [c \in Clients |-> NoClient]
    /\ lists = [l \in Derived |-> NoList]
    /\ finds = [f \in Derived |-> NoFind]
    /\ conn_open = {}
    /\ close_calls = [h \in 1..MaxHandles |-> 0]
    /\ opened = 0
    /\ tasks = [t \in Tasks |-> NoTask]
    /\ task_ops = [t \in Tasks |-> NoTaskOp]
    /\ native = NoNative

NextCodec ==
    \/ \E s \in Strings : encode_string(s)
    \/ decode_encoded

SpecCodec ==
    InitCodec /\ [][NextCodec]_vars

\* SpecTokio: concurrent cicode_tokio calls on one connection shared in an Arc
InitTokio ==
    /\ async_op = NoAsyncOp
    /\ inflight = NoneInflight
    /\ initiated = FALSE
    /\ created = 0
    /\ event_closes = [h \in 1..MaxOps |-> 0]
    /\ uaf = FALSE
    /\ lastCall = NoCall
    /\ clients = [c \in Clients |->
                     IF c = 1 THEN [state |-> "live", handle |-> 1, arcs |-> 1] ELSE NoClient]
    /\ lists = [l \in Derived |-> NoList]
    /\ finds = [f \in Derived |-> NoFind]
    /\ conn_open = {1}
    /\ close_calls = [h \in 1..MaxHandles |-> 0]
    /\ opened = 1
    /\ tasks = [t \in Tasks |-> NoTask]
    /\ task_ops = [t \in Tasks |-> NoTaskOp]
    /\ native = NoNative

NextTokio ==
    \/ \E t \in Tasks, cmd \in ArgStrings : cicode_tokio(t, cmd)
    \/ \E t \in Tasks : await_join(t)
    \/ \E t \in Tasks : closure_AsyncOperation_new(t)
    \/ \E t \in Tasks : closure_cicode_async(t)
    \/ \E o \in Tasks, t \in Tasks : NativeCompleteTask(o, t)
    \/ \E t \in Tasks : closure_get_result(t)

SpecTokio ==
    InitTokio /\ [][NextTokio]_vars

\* SpecTokioClient: cicode_tokio calls on a directly owned CtClient, whose
\* futures the caller may drop
InitTokioClient ==
    /\ async_op = NoAsyncOp
    /\ inflight = NoneInflight
    /\ initiated = FALSE
    /\ created = 0
    /\ event_closes = [h \in 1..MaxOps |-> 0]
    /\ uaf = FALSE
    /\ lastCall = NoCall
    /\ clients = [c \in Clients |->
                     IF c = 1 THEN [state |-> "live", handle |-> 1, arcs |-> 0] ELSE NoClient]
    /\ lists = [l \in Derived |-> NoList]
    /\ finds = [f \in Derived |-> NoFind]
    /\ conn_open = {1}
    /\ close_calls = [h \in 1..MaxHandles |-> 0]
    /\ opened = 1
    /\ tasks = [t \in Tasks |-> NoTask]
    /\ task_ops = [t \in Tasks |-> NoTaskOp]
    /\ native = NoNative

NextTokioClient ==
    \/ \E t \in Tasks, cmd \in ArgStrings : cicode_tokio_CtClient(t, cmd)
    \/ \E t \in Tasks : closure_AsyncOperation_new(t)
    \/ \E t \in Tasks : closure_cicode_async(t)
    \/ \E o \in Tasks, t \in Tasks : NativeCompleteTask(o, t)
    \/ \E t \in Tasks : closure_get_result(t)
    \/ \E t \in Tasks : await_join(t)
    \/ \E t \in Tasks : drop_future(t)

SpecTokioClient ==
    InitTokioClient /\ [][NextTokioClient]_vars

\* SpecReadTokio: read_tokio calls on the list of a shared connection, with
\* add_tag and read_tag between them
InitReadTokio ==
    /\ async_op = NoAsyncOp
    /\ inflight = NoneInflight
    /\ initiated = FALSE
    /\ created = 0
    /\ event_closes = [h \in 1..MaxOps |-> 0]
    /\ uaf = FALSE
    /\ lastCall = NoCall
    /\ clients = [c \in Clients |->
                     IF c = 1 THEN [state |-> "live", handle |-> 1, arcs |-> 0] ELSE NoClient]
    /\ lists = [l \in Derived |->
                   IF l = 1 THEN [state |-> "live", client |-> 1, handle |-> 1,
                                  tag_map |-> <<>>]
                   ELSE NoList]
    /\ finds = [f \in Derived |-> NoFind]
    /\ conn_open = {1}
    /\ close_calls = [h \in 1..MaxHandles |-> 0]
    /\ opened = 1
    /\ tasks = [t \in Tasks |-> NoTask]
    /\ task_ops = [t \in Tasks |-> NoTaskOp]
    /\ native = NoNative

NextReadTokio ==
    \/ \E t \in Tasks, l \in Derived : read_tokio(t, l)
    \/ \E t \in Tasks : read_tokio_wake(t)
    \/ \E t \in Tasks : drop_future(t)
    \/ \E o \in Tasks, t \in Tasks : NativeCompleteTask(o, t)
    \/ \E l \in Derived, tag \in TagNames : ~Reading(l) /\ add_tag(l, tag)
    \/ \E l \in Derived, tag \in TagNames : ~Reading(l) /\ read_tag(l, tag)

SpecReadTokio ==
    InitReadTokio /\ [][NextReadTokio]_vars

\* tag names passed to add_tag, add_tag_ex, delete_tag and read_tag
ListTagNames ==
    TagNames \cup {<<65, 0>>}

\* SpecDerived: the lists made from one open connection and their tags
InitDerived ==
    /\ async_op = NoAsyncOp
    /\ inflight = NoneInflight
    /\ initiated = FALSE
    /\ created = 0
    /\ event_closes = [h \in 1..MaxOps |-> 0]
    /\ uaf = FALSE
    /\ lastCall = NoCall
    /\ clients = [c \in Clients |->
                     IF c = 1 THEN [state |-> "live", handle |-> 1, arcs |-> 0] ELSE NoClient]
    /\ lists = [l \in Derived |-> NoList]
    /\ finds = [f \in Derived |-> NoFind]
    /\ conn_open = {1}
    /\ close_calls = [h \in 1..MaxHandles |-> 0]
    /\ opened = 1
    /\ tasks = [t \in Tasks |-> NoTask]
    /\ task_ops = [t \in Tasks |-> NoTaskOp]
    /\ native = NoNative

NextDerived ==
    \/ \E c \in Clients, l \in Derived, h \in 0..MaxDerived : list_new(c, l, h)
    \/ \E l \in Derived, tag \in ListTagNames : add_tag(l, tag)
    \/ \E l \in Derived, tag \in ListTagNames : add_tag_ex(l, tag)
    \/ \E l \in Derived, tag \in ListTagNames : delete_tag(l, tag)
    \/ \E l \in Derived, tag \in ListTagNames : read_tag(l, tag)
    \/ \E l \in Derived : drop_CtList(l)

SpecDerived ==
    InitDerived /\ [][NextDerived]_vars

\* SpecFind: the searches and lists made from one open connection, from
\* their creation to their drop
NextFind ==
    \/ \E c \in Clients, l \in Derived, h \in 0..MaxDerived : list_new(c, l, h)
    \/ \E l \in Derived : drop_CtList(l)
    \/ \E c \in Clients, f \in Derived : find_first(c, f)
    \/ \E f \in Derived : next(f)
    \/ \E f \in Derived : drop_CtFind(f)

SpecFind ==
    InitDerived /\ [][NextFind]_vars

\* SpecConn starts with no connection
InitConn ==
    /\ async_op = NoAsyncOp
    /\ inflight = NoneInflight
    /\ initiated = FALSE
    /\ created = 0
    /\ event_closes = [h \in 1..MaxOps |-> 0]
    /\ uaf = FALSE
    /\ lastCall = NoCall
    /\ clients = [c \in Clients |-> NoClient]
    /\ lists = [l \in Derived |-> NoList]
    /\ finds = [f \in Derived |-> NoFind]
    /\ conn_open = {}
    /\ close_calls = [h \in 1..MaxHandles |-> 0]
    /\ opened = 0
    /\ tasks = [t \in Tasks |-> NoTask]
    /\ task_ops = [t \in Tasks |-> NoTaskOp]
    /\ native = NoNative

NextConn ==
    \/ \E c \in Clients, h \in 0..MaxHandles : open(c, h)
    \/ \E c \in Clients, d \in Clients : clone_CtClient(c, d)
    \/ \E c \in Clients : drop_CtClient(c)
    \/ \E c \in Clients : Arc_new(c)
    \/ \E c \in Clients : Arc_clone(c)
    \/ \E c \in Clients : Arc_drop(c)
    \/ \E c \in Clients, l \in Derived, h \in 0..MaxDerived : list_new(c, l, h)
    \/ \E l \in Derived : drop_CtList(l)
    \/ \E c \in Clients, f \in Derived : find_first(c, f)
    \/ \E f \in Derived : drop_CtFind(f)

SpecConn ==
    InitConn /\ [][NextConn]_vars

(***************************************************************************)
(* Properties.                                                             *)
(***************************************************************************)
Initiators ==
    {"cicode_async", "read_async", "write_tag_async"}

Retrievals ==
    {"get_result", "try_get_result"}

\* the Result inside an Option<Result<_>>
Unwrap(r) ==
    [r EXCEPT !.opt = ""]

AllZero(b) ==
    \A i \in 1..Len(b) : b[i] = 0

\* no terminator among the first n bytes of b
NoTerminatorWithin(b, n) ==
    \A i \in 1..Min(n, Len(b)) : b[i] # 0

LiveOwners(h) ==
    {c \in Clients : clients[c].state = "live" /\ clients[c].handle = h}

\* every character of s is in the GBK repertoire (ASCII included)
Representable(s) ==
    \A i \in 1..Len(s) : s[i] < 128 \/ IsGbkChar(s[i])

\* s holds no NUL character
NoNul(s) ==
    \A i \in 1..Len(s) : s[i] # 0

\* C1: ctClose is issued at most once per connection handle ctOpen returned,
\* and exactly once when no CtClient owning the handle is left.
C1_ExactlyOneClosePerOpen ==
    \A h \in 1..MaxHandles :
        /\ close_calls[h] <= 1
        /\ (h <= opened /\ LiveOwners(h) = {}) => close_calls[h] = 1

\* C2: while a CtList or CtFind is alive the native connection handle of the
\* CtClient it was derived from is still open.
C2_ConnectionOpenWhileDerivedAlive ==
    /\ \A l \in Derived :
          lists[l].state = "live" => clients[lists[l].client].handle \in conn_open
    /\ \A f \in Derived :
          finds[f].state = "live" => clients[finds[f].client].handle \in conn_open

\* C3: an initiator that reached its native call returns Ok(()) when the call
\* succeeded or failed with the pending sentinel, and Err carrying the native
\* code for every other failure code.
C3_InitiatorsSwallowOnlyPending ==
    (lastCall.op \in Initiators /\ lastCall.called) =>
        IF lastCall.ok \/ lastCall.code = ERROR_IO_PENDING
        THEN lastCall.ret = OkUnit
        ELSE lastCall.ret = ErrSystem(lastCall.code)

\* C3 witness: ctCicode failed with the pending sentinel and cicode_async returned Ok(())
C3_Witness ==
    /\ lastCall.op = "cicode_async"
    /\ lastCall.called
    /\ ~lastCall.ok
    /\ lastCall.code = ERROR_IO_PENDING
    /\ lastCall.ret = OkUnit
    /\ inflight.cicode = 1

\* C4: try_get_result returns None whenever the non-blocking native result
\* call fails with the "operation incomplete" code, a code distinct from the
\* pending sentinel the initiators consume.
C4_IncompleteYieldsNone ==
    /\ ERROR_IO_INCOMPLETE # ERROR_IO_PENDING
    /\ (lastCall.op = "try_get_result" /\ ~lastCall.ok /\ lastCall.code = ERROR_IO_INCOMPLETE)
          => lastCall.ret = None

\* C5: try_get_result returns None only for the "operation incomplete" code,
\* Some(Err) for every other failure code (the pending sentinel included) and
\* Some(Ok) only after native success; get_result returns Err(System) for
\* every failure code.
C5_OutcomesNeverConflated ==
    /\ lastCall.op = "try_get_result" =>
          /\ lastCall.ret = None => (~lastCall.ok /\ lastCall.code = ERROR_IO_INCOMPLETE)
          /\ (~lastCall.ok /\ lastCall.code # ERROR_IO_INCOMPLETE)
                => lastCall.ret = Some(ErrSystem(lastCall.code))
          /\ (lastCall.ret.opt = "Some" /\ lastCall.ret.kind = "Ok") => lastCall.ok
    /\ (lastCall.op = "get_result" /\ ~lastCall.ok) => lastCall.ret = ErrSystem(lastCall.code)

\* C6: after a successful native result call the text returned is the decoding
\* of exactly the bytes before the first terminator, and that terminator lies
\* within the first min(bytes_transferred, buffer length) bytes.
C6_TextIsBytesBeforeFirstTerminator ==
    (lastCall.op \in Retrievals /\ lastCall.ok) =>
        /\ ~NoTerminatorWithin(async_op.buffer, lastCall.bytes) => lastCall.ret.kind = "Ok"
        /\ lastCall.ret.kind = "Ok" =>
              \E z \in 1..Min(lastCall.bytes, Len(async_op.buffer)) :
                 /\ async_op.buffer[z] = 0
                 /\ \A j \in 1..(z - 1) : async_op.buffer[j] # 0
                 /\ lastCall.ret.text = GBK_decode(SubSeq(async_op.buffer, 1, z - 1))

\* C6 witness: get_result on a buffer holding text, a terminator and a trailing byte
C6_Witness ==
    /\ lastCall.op = "get_result"
    /\ lastCall.ok
    /\ lastCall.bytes = 3
    /\ async_op.buffer = <<65, 0, 65>>
    /\ lastCall.ret = Ok(<<65>>)

\* C7: after a successful native result call on a buffer with no terminator
\* among the first min(bytes_transferred, buffer length) bytes, the result is
\* the FromBytesUntilNul decoding error.
C7_NoTerminatorIsDecodingError ==
    (lastCall.op \in Retrievals /\ lastCall.ok
        /\ NoTerminatorWithin(async_op.buffer, lastCall.bytes))
    => Unwrap(lastCall.ret) = ErrFromBytesUntilNul

\* C7 witness: get_result after the native layer reported zero bytes transferred
C7_Witness ==
    /\ lastCall.op = "get_result"
    /\ lastCall.ok
    /\ lastCall.bytes = 4
    /\ async_op.buffer = <<65, 176, 65>>
    /\ lastCall.ret = ErrFromBytesUntilNul

\* C8: decoding a buffer of zero bytes yields Ok(""), for
\* extract_string_from_buffer and for get_result / try_get_result after a
\* successful native result call.
C8_AllZeroDecodesToEmpty ==
    /\ (lastCall.op = "extract_string_from_buffer"
           /\ Len(lastCall.input) >= 1 /\ AllZero(lastCall.input))
          => lastCall.ret = Ok(<<>>)
    /\ (lastCall.op \in Retrievals /\ lastCall.ok
           /\ Len(async_op.buffer) >= 1 /\ AllZero(async_op.buffer))
          => Unwrap(lastCall.ret) = Ok(<<>>)

\* C8 as amended: the retrieval functions yield Ok("") on a buffer of zero
\* bytes when at least one byte was reported as transferred.
C8_AllZeroDecodesToEmptyIfTransferred ==
    /\ (lastCall.op = "extract_string_from_buffer"
           /\ Len(lastCall.input) >= 1 /\ AllZero(lastCall.input))
          => lastCall.ret = Ok(<<>>)
    /\ (lastCall.op \in Retrievals /\ lastCall.ok /\ lastCall.bytes >= 1
           /\ Len(async_op.buffer) >= 1 /\ AllZero(async_op.buffer))
          => Unwrap(lastCall.ret) = Ok(<<>>)

\* C8 witness: try_get_result on a two-byte zero buffer with bytes transferred
C8_Witness ==
    /\ lastCall.op = "try_get_result"
    /\ lastCall.ok
    /\ lastCall.bytes >= 1
    /\ async_op.buffer = <<0, 0>>
    /\ lastCall.ret = Some(Ok(<<>>))

\* C9: reset on an AsyncOperation with a buffer of at least one byte keeps the
\* buffer's size and address, zeroes every byte, puts the control block in the
\* "not started" state with the data pointer bound to the buffer, and keeps
\* the completion-event handle.
C9_ResetRestoresNotStarted ==
    [][(reset /\ Len(async_op.buffer) >= 1) =>
          /\ Len(async_op'.buffer) = Len(async_op.buffer)
          /\ async_op'.buf_addr = async_op.buf_addr
          /\ AllZero(async_op'.buffer)
          /\ async_op'.overlapped.dwStatus = 0
          /\ async_op'.overlapped.dwLength = 0
          /\ async_op'.overlapped.pData = async_op.buf_addr
          /\ async_op'.overlapped.hEvent = async_op.event_handle
          /\ async_op'.event_handle = async_op.event_handle]_vars

\* C9 witness: a reset of an operation whose buffer held result bytes and
\* whose control block had been handed to the native layer
C9_Witness ==
    /\ lastCall.op = "reset"
    /\ lastCall.input = <<176>>
    /\ async_op.buffer = <<0>>
    /\ async_op.event_handle # NULL
    /\ async_op.overlapped.hEvent = async_op.event_handle

\* C10: an AsyncOperation that was created or reset and not initiated since
\* is not pending: is_complete() is true.
C10_FreshIsComplete ==
    (async_op.phase = "live" /\ ~initiated) => is_complete(async_op)

\* C10 witness: a freshly created AsyncOperation
C10_Witness ==
    /\ lastCall.op = "with_buffer_size"
    /\ async_op.phase = "live"
    /\ ~initiated
    /\ async_op.overlapped.dwStatus # STATUS_PENDING

\* C11: at most one native operation is outstanding against an AsyncOperation.
C11_AtMostOneOutstanding ==
    Outstanding <= 1

\* C12: reset and drop happen only when no native operation is outstanding,
\* or right after an outcome was retrieved or a cancel request was accepted.
C12_NoResetOrDropWhilePending ==
    [][(reset \/ drop_AsyncOperation) =>
          \/ Outstanding = 0
          \/ (lastCall.op = "cancel" /\ lastCall.ok)
          \/ (lastCall.op \in Retrievals /\ lastCall.ret # None)]_vars

\* C13: while an AsyncOperation lives, the address and the length of its
\* buffer never change, and the data pointer of the control block is the
\* buffer's address.
C13_BufferNeverMoves ==
    [][(async_op.phase = "live" /\ async_op'.phase = "live") =>
          /\ async_op'.buf_addr = async_op.buf_addr
          /\ Len(async_op'.buffer) = Len(async_op.buffer)
          /\ async_op.overlapped.pData = async_op.buf_addr
          /\ async_op'.overlapped.pData = async_op'.buf_addr]_vars

\* C13 witness: an operation is pending on a heap buffer that holds the bytes
\* of an earlier result, and the control block still carries its address
C13_Witness ==
    /\ Outstanding = 1
    /\ lastCall.op \in Initiators
    /\ created = 1
    /\ async_op.buf_addr \in HeapAddrs
    /\ async_op.overlapped.pData = async_op.buf_addr
    /\ async_op.buffer # ZeroBuffer(Len(async_op.buffer))

\* C14: the completion-event handle is closed exactly once when its
\* AsyncOperation is destroyed, never while the AsyncOperation lives (reset
\* included), and a NULL or invalid handle is never closed.
C14_EventClosedOnceAtDrop ==
    /\ \A h \in 1..MaxOps :
          /\ event_closes[h] <= 1
          /\ (async_op.phase = "live" /\ async_op.event_handle = h) => event_closes[h] = 0
          /\ (async_op.phase = "dropped" /\ async_op.event_handle = h) => event_closes[h] = 1
          /\ h > created => event_closes[h] = 0
    /\ (async_op.phase = "dropped" /\ async_op.event_handle = NULL /\ created = 1)
          => \A h \in 1..MaxOps : event_closes[h] = 0

\* C14 witness: an AsyncOperation that was reset and then destroyed, its
\* event handle closed once
C14_Witness ==
    /\ async_op.phase = "dropped"
    /\ lastCall.op = "drop"
    /\ ~initiated
    /\ async_op.event_handle = 1
    /\ event_closes[1] = 1

\* C15: a created AsyncOperation holds a non-null completion-event handle
\* (creation fails when CreateEventA fails) and, until it is used, a zeroed
\* buffer.
C15_CreationHoldsEvent ==
    /\ async_op.phase = "live" => async_op.event_handle # NULL
    /\ (lastCall.op = "with_buffer_size" /\ Outstanding = 0) => AllZero(async_op.buffer)

\* C16: cancel returns Ok(true) exactly when ctCancelIO accepted the request
\* and Err(System) carrying the native code when it refused; it never
\* returns Ok(false) and leaves the operation as it was.
C16_CancelReportsRequestOnly ==
    lastCall.op = "cancel" =>
        /\ lastCall.ok <=> lastCall.ret = OkTrue
        /\ ~lastCall.ok <=> lastCall.ret = ErrSystem(lastCall.code)
        /\ lastCall.ret # OkFalse

\* C16 witness: an accepted cancel request on a pending operation
C16_Witness ==
    /\ lastCall.op = "cancel"
    /\ lastCall.ok
    /\ lastCall.ret = OkTrue
    /\ Outstanding = 1
    /\ async_op.overlapped.dwStatus = STATUS_PENDING

PublicCalls ==
    Initiators \cup Retrievals \cup {"cancel", "cicode", "tag_read"}

C20_OwnAsyncOperationPerCall ==
    /\ \A o \in Tasks :
          /\ Cardinality(task_ops[o].users) <= 1
          /\ task_ops[o].pending \subseteq task_ops[o].users
    /\ \A t \in Tasks :
          (tasks[t].pc = "returned" /\ tasks[t].ret.kind = "Ok")
              => tasks[t].ret.text \in {<<>>, GBK_decode(Answer(t))}

\* C20 witness: two calls have returned, each with the text of its own
\* command, after both commands were outstanding
C20_Witness ==
    /\ tasks[1].pc = "returned"
    /\ tasks[2].pc = "returned"
    /\ tasks[1].ret = Ok(GBK_decode(Answer(1)))
    /\ tasks[2].ret = Ok(GBK_decode(Answer(2)))
    /\ task_ops[1].dwStatus = 0
    /\ task_ops[2].dwStatus = 0
    /\ task_ops[1].users = {1}
    /\ task_ops[2].users = {2}

\* C21: cicode_async on a command the encoder rejects (embedded NUL) returns
\* InvalidParameter without a native call and leaves the AsyncOperation and
\* the operations outstanding against it as they were.
C21_UnencodableCommandRejected ==
    [][\A cmd \in {a \in ArgStrings : ~encode_to_gbk_cstring(a).ok} : \A c \in Clients :
          cicode_async(c, cmd) =>
              /\ lastCall'.op = "cicode_async"
              /\ ~lastCall'.called
              /\ lastCall'.ret = ErrInvalidParameter
              /\ async_op' = async_op
              /\ inflight' = inflight
              /\ initiated' = initiated
              /\ event_closes' = event_closes]_vars

\* C21 witness: cicode_async has rejected a command on an AsyncOperation that
\* holds an earlier result and an open event handle
C21_Witness ==
    /\ lastCall.op = "cicode_async"
    /\ ~lastCall.called
    /\ lastCall.ret = ErrInvalidParameter
    /\ async_op.phase = "live"
    /\ async_op.event_handle # NULL
    /\ async_op.buffer = <<65>>
    /\ initiated

\* C23: while a native operation is outstanding against a live
\* AsyncOperation, is_complete() is false; is_complete() is true on an
\* initiated AsyncOperation only when nothing is outstanding.
C23_PendingUntilCompleted ==
    /\ (async_op.phase = "live" /\ Outstanding > 0) => ~is_complete(async_op)
    /\ (async_op.phase = "live" /\ initiated /\ is_complete(async_op)) => Outstanding = 0

\* C27: the synchronous wrappers return an error when the buffer the native
\* call filled holds no terminator and when the terminated text is empty,
\* and Ok(text) exactly for a non-empty terminated text.
C27_EmptyResponseIsError ==
    (lastCall.op \in {"cicode", "tag_read"} /\ lastCall.ok) =>
        /\ FirstNul(lastCall.input, 1) = 0 => lastCall.ret = ErrFromBytesUntilNul
        /\ FirstNul(lastCall.input, 1) = 1 => lastCall.ret = ErrOther
        /\ FirstNul(lastCall.input, 1) > 1 =>
              lastCall.ret = Ok(GBK_decode(SubSeq(lastCall.input, 1, FirstNul(lastCall.input, 1) - 1)))
        /\ lastCall.ret.kind = "Ok" => lastCall.ret.text # <<>>

\* C27 witness: cicode succeeded natively with a buffer of zero bytes and
\* returned the empty-response error
C27_Witness ==
    /\ lastCall.op = "cicode"
    /\ lastCall.ok
    /\ lastCall.input = <<0, 0, 0>>
    /\ lastCall.ret = ErrOther

\* the item handles a tag_map holds
Range(tag_map) ==
    {tag_map[t] : t \in DOMAIN tag_map}

\* C22: ctListFree is called exactly once for every CtList (its handle is never
\* NULL), at its drop; ctFindClose is called exactly once for every CtFind that
\* got a non-NULL search handle, at its drop, and never for a CtFind whose
\* find-first failed or was never issued
C22_DerivedHandlesReleasedOnce ==
    /\ \A l \in Derived :
          /\ lists[l].state \in {"none", "live"} => native.list_free[l] = 0
          /\ lists[l].state = "live" => lists[l].handle # NULL
          /\ lists[l].state = "dropped" => native.list_free[l] = 1
    /\ \A f \in Derived :
          /\ finds[f].state \in {"none", "live"} => native.find_close[f] = 0
          /\ finds[f].state = "dropped" =>
                native.find_close[f] = (IF finds[f].handle # NULL THEN 1 ELSE 0)
          /\ finds[f].handle # NULL => native.find_first[f] = 1
          /\ native.find_first[f] = 0 => native.find_close[f] = 0

\* a list was dropped, and so was a search whose find-first had failed
C22_Witness ==
    /\ \E l \in Derived : lists[l].state = "dropped" /\ native.list_free[l] = 1
    /\ \E f \in Derived :
          /\ finds[f].state = "dropped"
          /\ finds[f].handle = NULL
          /\ native.find_first[f] = 1

\* C29: the tag_map of a live list holds exactly the native item handles that
\* successful adds returned and successful deletes have not removed, so every
\* live item handle can still be reached through it
C29_TagMapHoldsLiveItems ==
    \A l \in Derived :
        lists[l].state = "live" => Range(lists[l].tag_map) = native.items[l]

\* C30: a search issues find-first at most once, find-next only with the
\* non-NULL handle find-first returned, and once next() has returned None every
\* later next() returns None without a native call
C30_SearchProtocol ==
    [][\A f \in Derived :
          /\ native'.find_first[f] <= 1
          /\ native'.find_next[f] > native.find_next[f] =>
                finds[f].handle # NULL /\ native.find_first[f] = 1
          /\ (finds[f].is_end /\ next(f)) =>
                /\ lastCall'.ret = None /\ ~lastCall'.called
                /\ native' = native /\ finds' = finds
          /\ (next(f) /\ lastCall'.ret = None) => finds'[f].is_end]_vars

\* next() was called again after a search that had found objects ended
C30_Witness ==
    \E f \in Derived :
        /\ finds[f].state = "live" /\ finds[f].is_end
        /\ native.find_first[f] = 1 /\ native.find_next[f] > 1
        /\ lastCall.op = "next" /\ ~lastCall.called /\ lastCall.ret = None

\* C24: the worker of a cicode_tokio call does Create, Initiate, Wait in that
\* order; the Wait is never issued after a failed initiation; the future
\* resolves only after the worker has finished, to the initiation's error when
\* the initiation failed and otherwise to exactly what the Wait returned
C24_CreateInitiateWaitThenResolve ==
    \A t \in Tasks :
        tasks[t].kind = "cicode" =>
            /\ \E n \in 0..3 : tasks[t].steps = SubSeq(<<"Create", "Initiate", "Wait">>, 1, n)
            /\ tasks[t].init.kind = "Err" => (Len(tasks[t].steps) = 2 /\ tasks[t].wait = NoRet)
            /\ tasks[t].fut = "resolved" =>
                  /\ tasks[t].pc = "returned"
                  /\ task_ops[OpOf(t)].state = "dropped"
                  /\ tasks[t].init.kind = "Err" => tasks[t].out = tasks[t].init
                  /\ tasks[t].init.kind # "Err" =>
                        /\ tasks[t].init = OkUnit
                        /\ tasks[t].steps = <<"Create", "Initiate", "Wait">>
                        /\ tasks[t].wait # NoRet
                        /\ tasks[t].out = tasks[t].wait

\* one call resolved to the error of its initiation, another to the text its
\* Wait returned
C24_Witness ==
    /\ tasks[1].fut = "resolved"
    /\ tasks[1].init = ErrSystem(5)
    /\ tasks[1].out = ErrSystem(5)
    /\ tasks[2].fut = "resolved"
    /\ tasks[2].steps = <<"Create", "Initiate", "Wait">>
    /\ tasks[2].out = Ok(GBK_decode(Answer(2)))

C26_NeverDestroyedWhilePending ==
    /\ ~uaf
    /\ \A o \in Tasks : task_ops[o].state = "dropped" => task_ops[o].pending = {}

\* C28: the bridge methods leave the connection open: they issue no ctClose
C28_BridgeLeavesConnectionOpen ==
    /\ conn_open = {clients[1].handle}
    /\ \A h \in 1..MaxHandles : close_calls[h] = 0
====
